---- MODULE Spec2Model ----
(***************************************************************************)
(* Interrupt based logic analyzer (Core/Src/main.c).                       *)
(*                                                                         *)
(* The edge callback HAL_GPIO_EXTI_Callback runs in interrupt context and  *)
(* pushes 32-bit event words into event_buffer; the main loop drains them  *)
(* in chunks to the USB CDC transport and stops the capture once the       *)
(* 32-bit timer reaches 2^29.                                              *)
(*                                                                         *)
(* uint32_t values are held as the 32-bit two's-complement integer with    *)
(* the same bit pattern (the model checker's integers are 32 bits wide):   *)
(* a value v >= 2^31 is held as v - 2^32.  Unsigned comparison is ULe/ULt. *)
(*                                                                         *)
(* The two EXTI lines have the same preemption priority (0,0), so a        *)
(* callback runs to completion: it is one step.  The main loop is one step *)
(* per statement that touches shared state; the steps are named after the  *)
(* source line they model.                                                 *)
(*                                                                         *)
(* The buffer capacity and the chunk size are scaled down (MAX_EVENTS is   *)
(* 2^LogMaxEvents instead of 2^10, EVENT_CHUNK_SIZE is 2 instead of 16);   *)
(* the code is parametric in both.                                         *)
(*                                                                         *)
(* Specifications:                                                         *)
(*   Spec         the main loop with callbacks served between statements   *)
(*   SpecStop     Spec with the edges arriving from the tick check on      *)
(*   SpecIsr      Spec with the callback taken statement by statement      *)
(*   SpecCapture  the callback alone, on every pin, level and tick         *)
(*   SpecTimer    one call of get_32bit_timer, read by read                *)
(***************************************************************************)
EXTENDS Integers, Sequences, FiniteSets

\* ------------------------------------------------------------- bounds
\* log2 of the buffer capacity (main.c:50 has 2^10)
LogMaxEvents == 3
\* events per packet (main.c:48 has 16)
EVENT_CHUNK_SIZE == 2
\* edge callbacks served after the main loop was entered
MaxEdges == 2
\* largest value of the millisecond counter uwTick
MaxMs == 2
\* consecutive USBD_BUSY answers of the transport for one packet
MaxBusy == 1

\* ---------------------------------------------------------- constants
USB_SEND_INTERVAL_MS == 2
MAX_EVENTS == 2 ^ LogMaxEvents
EVENT_MASK == MAX_EVENTS - 1
\* width of the timestamp field of an event word (mask 0x1FFFFFFF)
TS_BITS == 29
TS_LIMIT == 2 ^ TS_BITS
GPIO_PIN_4 == 16
GPIO_PIN_5 == 32
GPIO_PIN_6 == 64
GPIO_PIN_7 == 128
\* a pin of the EXTI9_5 line that is not a channel
GPIO_PIN_8 == 256
GPIO_PIN_SET == 1
GPIO_PIN_RESET == 0

\* ------------------------------------------------ 32-bit arithmetic
\* bit 31 of a uint32_t, as the two's-complement integer
Bit31 == (-2147483647) - 1

\* a <= b and a < b on uint32_t
ULe(a, b) == IF (a < 0) = (b < 0) THEN a <= b ELSE b < 0
ULt(a, b) == ~ULe(b, a)

\* a - b and a + b on uint32_t (the model's operands are far from 2^31)
Sub32(a, b) == a - b
Add32(a, b) == a + b

RECURSIVE BitAnd(_, _)
\* a & b for a, b >= 0
BitAnd(a, b) ==
    IF a = 0 \/ b = 0 THEN 0
    ELSE (a % 2) * (b % 2) + 2 * BitAnd(a \div 2, b \div 2)

\* (mutant) the larger of the two
MIN_Larger(a, b) == IF ULt(a, b) THEN b ELSE a

\* main.c:177: MIN on uint32_t
MIN(a, b) == IF ULt(a, b) THEN a ELSE b

\* ------------------------------------------------------------- state
VARIABLES
    write_index,        \* main.c:52
    read_index,         \* main.c:53
    event_buffer,       \* main.c:54
    TIM2_CNT,           \* low 16 bits of the tick
    TIM3_CNT,           \* high 16 bits of the tick
    tim2_on,            \* HAL_TIM_Base_Start / HAL_TIM_Base_Stop of htim2
    tim3_on,
    uwTick,             \* the HAL millisecond counter read by HAL_GetTick
    primask,            \* TRUE between __disable_irq and __enable_irq
    nvic_exti4,         \* EXTI4_IRQn enabled in the NVIC
    nvic_exti9_5,       \* EXTI9_5_IRQn enabled in the NVIC
    pc,                 \* the main loop's position (source line)
    now,                \* locals of main
    diff,
    to_send,
    i,
    event,
    usb_packet,
    last_usb_send_time,
    \* history variables (observers, not read by the program)
    accepted,           \* the pushes that advanced write_index, in order
    sent,               \* the packets the transport accepted, in order
    tx_log,             \* the calls of CDC_Transmit_FS for the current packet
    cb_log,             \* the outcomes of the callbacks served in the loop
    iter,               \* what the current loop iteration started from
    stopped,            \* the stop block has completed at least once
    served,             \* the arguments of the callbacks served, in order
    \* the edge callback taken statement by statement (main.c:112-116)
    isr_pc,             \* "idle", or the line the callback is about to run
    isr_data,           \* its local data
    isr_next_write,     \* its local next_write
    \* a call of get_32bit_timer taken register read by register read
    tm_pc,              \* "idle", or the line the call is about to run
    tm_high1,           \* its locals high1, low, high2
    tm_low,
    tm_high2,
    tm_ret,             \* the value it returned
    tm_first,           \* the tick at its first register read
    tm_last,            \* the tick at its last register read
    tm_wraps            \* the wraparounds of TIM2 since its first read

vars == <<write_index, read_index, event_buffer, TIM2_CNT, TIM3_CNT, tim2_on,
          tim3_on, uwTick, primask, nvic_exti4, nvic_exti9_5, pc, now, diff,
          to_send, i, event, usb_packet, last_usb_send_time,
          accepted, sent, tx_log, cb_log, iter, stopped, served,
          isr_pc, isr_data, isr_next_write, tm_pc, tm_high1, tm_low,
          tm_high2, tm_ret, tm_first, tm_last, tm_wraps>>

shared == <<write_index, read_index, event_buffer>>
hw == <<TIM2_CNT, TIM3_CNT, tim2_on, tim3_on, uwTick, primask, nvic_exti4,
        nvic_exti9_5>>
timers == <<TIM2_CNT, TIM3_CNT, tim2_on, tim3_on>>
locals == <<now, diff, to_send, i, event, usb_packet, last_usb_send_time>>
history == <<accepted, sent, tx_log, cb_log, iter, stopped>>
isr == <<isr_pc, isr_data, isr_next_write>>
timer_call == <<tm_pc, tm_high1, tm_low, tm_high2, tm_ret, tm_first, tm_last,
                tm_wraps>>
\* what the statement-level views of the callback and of the timer read add
aux == <<served, isr, timer_call>>

\* ------------------------------------------------------------ TimeBase
\* ((uint32_t)high << 16) | low
Compose(high, low) ==
    (IF high >= 32768 THEN high - 65536 ELSE high) * 65536 + low

\* get_32bit_timer on the four register reads it makes
get_32bit_timer(high1, low1, high2, low2) ==
    IF high1 # high2 THEN Compose(high2, low2) ELSE Compose(high1, low1)

\* get_32bit_timer with no counter step during the call
Timer32(high, low) == get_32bit_timer(high, low, high, low)

\* the values <<TIM3_CNT, TIM2_CNT>> the counters are read at: the ticks
\* 1, 2^29 - 1 and 2^29
TickPoints ==
    {<<0, 1>>, <<(TS_LIMIT \div 65536) - 1, 65535>>, <<TS_LIMIT \div 65536, 0>>}

\* ---------------------------------------------------------- EdgeCapture
\* the edges served: the pin and the level HAL_GPIO_ReadPin finds on it.
\* Only the channel pins are EXTI sources (MX_GPIO_Init), so the running
\* program serves no other pin; Capture calls the callback with the others.
Edges == {<<GPIO_PIN_4, GPIO_PIN_SET>>, <<GPIO_PIN_7, GPIO_PIN_RESET>>}
NoChannel == 4

\* (mutant) the pin is tested bit by bit
Channel_BitTest(GPIO_Pin) ==
    IF BitAnd(GPIO_Pin, GPIO_PIN_4) # 0 THEN 0
    ELSE IF BitAnd(GPIO_Pin, GPIO_PIN_5) # 0 THEN 1
    ELSE IF BitAnd(GPIO_Pin, GPIO_PIN_6) # 0 THEN 2
    ELSE IF BitAnd(GPIO_Pin, GPIO_PIN_7) # 0 THEN 3
    ELSE NoChannel

\* main.c:101-105
Channel(GPIO_Pin) ==
    IF GPIO_Pin = GPIO_PIN_4 THEN 0
    ELSE IF GPIO_Pin = GPIO_PIN_5 THEN 1
    ELSE IF GPIO_Pin = GPIO_PIN_6 THEN 2
    ELSE IF GPIO_Pin = GPIO_PIN_7 THEN 3
    ELSE NoChannel

\* (mutant) the channel is shifted by 28
EventWord_Shift28(pin_state, channel, time) ==
    (IF pin_state = GPIO_PIN_SET THEN Bit31 ELSE 0)
        + channel * (TS_LIMIT \div 2) + (time % TS_LIMIT)

\* main.c:109-110: (edge << 31) | (channel << 29) | (time & 0x1FFFFFFF)
EventWord(pin_state, channel, time) ==
    (IF pin_state = GPIO_PIN_SET THEN Bit31 ELSE 0)
        + channel * TS_LIMIT + (time % TS_LIMIT)

\* the NVIC line a pin's interrupt arrives on
LineEnabled(GPIO_Pin) ==
    IF GPIO_Pin = GPIO_PIN_4 THEN nvic_exti4 ELSE nvic_exti9_5


\* ------------------------------------------------------ EventRingBuffer
\* (mutant) the mask is one bit short
Slot_HalfMask(index) == BitAnd(index, EVENT_MASK \div 2)

\* main.c:115 and :185: the physical slot of a logical index
Slot(index) == BitAnd(index, EVENT_MASK)

\* (mutant) the slot after the one read_index names
ReadSlot_OffByOne == Slot(Add32(read_index, 1))

\* main.c:185: the slot the consumer reads
ReadSlot == Slot(read_index)

\* (mutant) one event more than the buffer holds is let in
HasRoom_OffByOne(next_write) ==
    ULe(Sub32(next_write, read_index), MAX_EVENTS + 1)

\* (mutant) no test for a full buffer
HasRoom_NoTest(next_write) == TRUE

\* main.c:113: next_write - read_index <= MAX_EVENTS
HasRoom(next_write) == ULe(Sub32(next_write, read_index), MAX_EVENTS)

\* write_index - read_index
Occupancy == Sub32(write_index, read_index)

\* ----------------------------------------------------------- wire format
\* the host's decode of an event word: bit 31, bits 30-29, bits 28-0
DecodeEdge(w) == IF w < 0 THEN 1 ELSE 0
DecodeChannel(w) == (w \div TS_LIMIT) % 4
DecodeTime(w) == w % TS_LIMIT

\* (mutant) most significant byte first
Bytes_BigEndian(w) ==
    <<(w \div 16777216) % 256, (w \div 65536) % 256, (w \div 256) % 256,
      w % 256>>

\* main.c:187-190: the four bytes of an event word, least significant first
Bytes(w) ==
    <<w % 256, (w \div 256) % 256, (w \div 65536) % 256,
      (w \div 16777216) % 256>>

\* the host's little-endian decode of four bytes to a uint32_t
WordOf(b) ==
    b[1] + 256 * b[2] + 65536 * b[3]
        + 16777216 * (IF b[4] >= 128 THEN b[4] - 256 ELSE b[4])

\* the event words of a packet, in packet order
WordsOf(pkt) ==
    [k \in 1 .. (Len(pkt) \div 4) |-> WordOf(SubSeq(pkt, 4 * k - 3, 4 * k))]

\* a byte of usb_packet that was never stored
Uninit == -1

\* ------------------------------------------------------------------ Init
\* The edge interrupts are enabled in MX_GPIO_Init (main.c:150) and the
\* timers start at main.c:156-157, so the loop is entered with the events
\* of the edges served in between already buffered, all with time 0.
BootEvent(k) == EventWord(k % 2, k % 4, 0)

\* the numbers of boot events the loop is entered with
BootFill == {0, 2 * EVENT_CHUNK_SIZE + 1, MAX_EVENTS}

Init ==
    /\ write_index \in BootFill
    /\ read_index = 0
    /\ event_buffer =
           [s \in 0 .. EVENT_MASK |-> IF s < write_index THEN BootEvent(s) ELSE 0]
    /\ TIM2_CNT = 0
    /\ TIM3_CNT = 0
    /\ tim2_on = TRUE
    /\ tim3_on = TRUE
    /\ uwTick = 0
    /\ primask = FALSE
    /\ nvic_exti4 = TRUE
    /\ nvic_exti9_5 = TRUE
    /\ pc = "L167"
    /\ now = 0
    /\ diff = 0
    /\ to_send = 0
    /\ i = 0
    /\ event = 0
    /\ usb_packet = <<>>
    /\ last_usb_send_time = 0
    /\ accepted = [k \in 1 .. write_index |->
                       [word |-> BootEvent(k - 1), tick |-> 0,
                        edge |-> (k - 1) % 2, channel |-> (k - 1) % 4]]
    /\ sent = <<>>
    /\ tx_log = <<>>
    /\ cb_log = <<>>
    /\ iter = [r0 |-> 0, last0 |-> 0, sends |-> 0]
    /\ stopped = FALSE
    /\ served = <<>>
    /\ isr_pc = "idle"
    /\ isr_data = 0
    /\ isr_next_write = 0
    /\ tm_pc = "idle"
    /\ tm_high1 = 0
    /\ tm_low = 0
    /\ tm_high2 = 0
    /\ tm_ret = 0
    /\ tm_first = 0
    /\ tm_last = 0
    /\ tm_wraps = 0

\* ------------------------------------------------------------- hardware
\* The counters are read by get_32bit_timer only, so their steps since the
\* last read are taken with the read: TIM2 counts while it runs, TIM3 counts
\* TIM2's overflows while it runs, and p is where the read finds them.
Counted(p) ==
    /\ IF tim2_on
       THEN /\ ULe(Compose(TIM3_CNT, TIM2_CNT), Compose(p[1], p[2]))
            /\ p[1] = TIM3_CNT \/ tim3_on
       ELSE p = <<TIM3_CNT, TIM2_CNT>>
    /\ TIM3_CNT' = p[1]
    /\ TIM2_CNT' = p[2]

\* ------------------------------------------ HAL_GPIO_EXTI_Callback (ISR)
HAL_GPIO_EXTI_Callback(GPIO_Pin, pin_state, p) ==
    /\ ~primask
    /\ LineEnabled(GPIO_Pin)
    /\ Len(cb_log) < MaxEdges
    /\ IF Channel(GPIO_Pin) = NoChannel
       THEN UNCHANGED <<TIM3_CNT, TIM2_CNT>>
       ELSE Counted(p)
    /\ LET channel == Channel(GPIO_Pin)
           time == Timer32(p[1], p[2])
           data == EventWord(pin_state, channel, time)
           next_write == Add32(write_index, 1)
       IN  IF channel = NoChannel
           THEN /\ cb_log' = Append(cb_log, "unmapped")
                /\ UNCHANGED <<shared, accepted>>
           ELSE IF HasRoom(next_write)
           THEN /\ event_buffer' = [event_buffer EXCEPT ![Slot(write_index)] = data]
                /\ write_index' = next_write
                /\ accepted' = Append(accepted, [word |-> data, tick |-> time,
                                               edge |-> IF pin_state = GPIO_PIN_SET THEN 1 ELSE 0,
                                               channel |-> channel])
                /\ cb_log' = Append(cb_log, "pushed")
                /\ UNCHANGED read_index
           ELSE /\ cb_log' = Append(cb_log, "dropped")
                /\ UNCHANGED <<shared, accepted>>
    /\ UNCHANGED <<tim2_on, tim3_on, uwTick, primask, nvic_exti4,
                   nvic_exti9_5, pc, locals, sent, tx_log, iter, stopped>>
    /\ UNCHANGED <<isr, timer_call>>


\* ------------------------------------------------------ main loop (main)
\* (mutant) the interval is forgotten
Trigger_ChunkOnly == ULe(EVENT_CHUNK_SIZE, diff)

\* main.c:174: the trigger of the Transmitter
Trigger ==
    \/ ULe(EVENT_CHUNK_SIZE, diff)
    \/ ULe(USB_SEND_INTERVAL_MS, Sub32(now, last_usb_send_time))

\* (mutant) the loop goes round on success and is left on busy
Retry_Inverted(result) == result = "USBD_OK"

\* main.c:194: the loop goes round again on this answer of CDC_Transmit_FS
Retry(result) == result = "USBD_BUSY"

\* main.c:200: get_32bit_timer() >= (1UL << 29)
TimerExpired(time) == ULe(TS_LIMIT, time)

\* main.c:167: HAL_GetTick().  uwTick is read here only, so the SysTick
\* interrupts (HAL_IncTick) since the last read are taken with the read.
L167 ==
    /\ pc = "L167"
    /\ \E ms \in uwTick .. MaxMs : uwTick' = ms /\ now' = ms
    /\ iter' = [r0 |-> read_index, last0 |-> last_usb_send_time, sends |-> 0]
    /\ pc' = "L169"
    /\ UNCHANGED <<shared, timers, primask, nvic_exti4, nvic_exti9_5, diff,
                   to_send, i, event, usb_packet,
                   last_usb_send_time, accepted, sent, tx_log,
                   cb_log, stopped>>
    /\ UNCHANGED aux

\* main.c:169: __disable_irq()
L169 ==
    /\ pc = "L169"
    /\ primask' = TRUE
    /\ pc' = "L170"
    /\ UNCHANGED <<shared, timers, uwTick, nvic_exti4, nvic_exti9_5, locals,
                   history>>
    /\ UNCHANGED aux

\* main.c:170
L170 ==
    /\ pc = "L170"
    /\ diff' = Sub32(write_index, read_index)
    /\ pc' = "L171"
    /\ UNCHANGED <<shared, hw, now, to_send, i, event, usb_packet,
                   last_usb_send_time, history>>
    /\ UNCHANGED aux

\* (mutant) interrupts stay masked
L171_StaysMasked ==
    /\ pc = "L171"
    /\ pc' = "L174"
    /\ UNCHANGED <<shared, hw, locals, history>>
    /\ UNCHANGED aux

\* main.c:171: __enable_irq()
L171 ==
    /\ pc = "L171"
    /\ primask' = FALSE
    /\ pc' = "L174"
    /\ UNCHANGED <<shared, timers, uwTick, nvic_exti4, nvic_exti9_5, locals,
                   history>>
    /\ UNCHANGED aux

\* main.c:174-183: the trigger test, to_send, the packet's allocation
L174 ==
    /\ pc = "L174"
    /\ IF Trigger /\ ULt(0, MIN(EVENT_CHUNK_SIZE, diff))
       THEN /\ to_send' = MIN(EVENT_CHUNK_SIZE, diff)
            /\ usb_packet' = [k \in 1 .. 4 * MIN(EVENT_CHUNK_SIZE, diff) |-> Uninit]
            /\ i' = 0
            /\ pc' = "L185"
       ELSE /\ pc' = "L200"
            /\ UNCHANGED <<to_send, usb_packet, i>>
    /\ UNCHANGED <<shared, hw, now, diff, event, last_usb_send_time, history>>
    /\ UNCHANGED aux

\* (mutant) the consumer clears the slot it has read
L185_ClearsSlot ==
    /\ pc = "L185"
    /\ event' = event_buffer[ReadSlot]
    /\ event_buffer' = [event_buffer EXCEPT ![ReadSlot] = 0]
    /\ pc' = "L186"
    /\ UNCHANGED <<write_index, read_index, hw, now, diff, to_send, i,
                   usb_packet, last_usb_send_time, history>>
    /\ UNCHANGED aux

\* main.c:185
L185 ==
    /\ pc = "L185"
    /\ event' = event_buffer[ReadSlot]
    /\ pc' = "L186"
    /\ UNCHANGED <<shared, hw, now, diff, to_send, i, usb_packet,
                   last_usb_send_time, history>>
    /\ UNCHANGED aux

\* main.c:186
L186 ==
    /\ pc = "L186"
    /\ read_index' = Add32(read_index, 1)
    /\ pc' = "L187"
    /\ UNCHANGED <<write_index, event_buffer, hw, locals, history>>
    /\ UNCHANGED aux

\* main.c:187-190, and the loop's ++i and test at main.c:183
L187 ==
    /\ pc = "L187"
    /\ usb_packet' =
           [k \in 1 .. Len(usb_packet) |->
               IF k > 4 * i /\ k <= 4 * i + 4
               THEN Bytes(event)[k - 4 * i] ELSE usb_packet[k]]
    /\ i' = i + 1
    /\ pc' = IF ULt(i + 1, to_send) THEN "L185" ELSE "L194"
    /\ UNCHANGED <<shared, hw, now, diff, to_send, event, last_usb_send_time, history>>
    /\ UNCHANGED aux

\* main.c:194: one call of CDC_Transmit_FS(usb_packet, to_send * 4)
L194(result) ==
    /\ pc = "L194"
    /\ result = "USBD_BUSY" =>
           Cardinality({k \in 1 .. Len(tx_log) : tx_log[k].res = "USBD_BUSY"}) < MaxBusy
    /\ tx_log' = Append(tx_log, [pkt |-> usb_packet, len |-> to_send * 4,
                                 res |-> result, r |-> read_index,
                                 last |-> last_usb_send_time])
    /\ IF result = "USBD_OK"
       THEN /\ sent' = Append(sent, usb_packet)
            /\ iter' = [iter EXCEPT !.sends = @ + 1]
       ELSE UNCHANGED <<sent, iter>>
    /\ pc' = IF Retry(result) THEN "L194" ELSE "L195"
    /\ UNCHANGED <<shared, hw, now, diff, to_send, i, event, usb_packet,
                   last_usb_send_time, accepted, cb_log, stopped>>
    /\ UNCHANGED aux

\* main.c:195-197: last_usb_send_time = now; the block's locals go out of scope
L195 ==
    /\ pc = "L195"
    /\ last_usb_send_time' = now
    /\ usb_packet' = <<>>
    /\ to_send' = 0
    /\ i' = 0
    /\ event' = 0
    /\ tx_log' = <<>>
    /\ pc' = "L200"
    /\ UNCHANGED <<shared, hw, now, diff, accepted, sent, cb_log,
                   iter, stopped>>
    /\ UNCHANGED aux

\* main.c:213: now and diff, declared in the loop body, go out of scope
EndOfIteration ==
    /\ now' = 0
    /\ diff' = 0
    /\ iter' = [r0 |-> 0, last0 |-> 0, sends |-> 0]

\* main.c:200
L200 ==
    /\ pc = "L200"
    /\ \E p \in TickPoints :
          /\ Counted(p)
          /\ IF TimerExpired(Timer32(p[1], p[2]))
             THEN pc' = "L202" /\ UNCHANGED <<now, diff, iter>>
             ELSE pc' = "L167" /\ EndOfIteration
    /\ UNCHANGED <<shared, tim2_on, tim3_on, uwTick, primask, nvic_exti4,
                   nvic_exti9_5, to_send, i, event, usb_packet,
                   last_usb_send_time, accepted, sent, tx_log, cb_log,
                   stopped>>
    /\ UNCHANGED aux

\* main.c:202: HAL_TIM_Base_Stop(&htim2)
L202 ==
    /\ pc = "L202"
    /\ tim2_on' = FALSE
    /\ pc' = "L203"
    /\ UNCHANGED <<shared, TIM2_CNT, TIM3_CNT, tim3_on, uwTick, primask,
                   nvic_exti4, nvic_exti9_5, locals, history>>
    /\ UNCHANGED aux

\* main.c:203: HAL_TIM_Base_Stop(&htim3)
L203 ==
    /\ pc = "L203"
    /\ tim3_on' = FALSE
    /\ pc' = "L204"
    /\ UNCHANGED <<shared, TIM2_CNT, TIM3_CNT, tim2_on, uwTick, primask,
                   nvic_exti4, nvic_exti9_5, locals, history>>
    /\ UNCHANGED aux

\* (mutant) the EXTI4 line is left enabled
L204_LeftEnabled ==
    /\ pc = "L204"
    /\ pc' = "L205"
    /\ UNCHANGED <<shared, hw, locals, history>>
    /\ UNCHANGED aux

\* main.c:204: HAL_NVIC_DisableIRQ(EXTI4_IRQn)
L204 ==
    /\ pc = "L204"
    /\ nvic_exti4' = FALSE
    /\ pc' = "L205"
    /\ UNCHANGED <<shared, timers, uwTick, primask, nvic_exti9_5, locals,
                   history>>
    /\ UNCHANGED aux

\* (mutant) the EXTI9_5 line is left enabled
L205_LeftEnabled ==
    /\ pc = "L205"
    /\ pc' = "L206"
    /\ UNCHANGED <<shared, hw, locals, history>>
    /\ UNCHANGED aux

\* main.c:205: HAL_NVIC_DisableIRQ(EXTI9_5_IRQn)
L205 ==
    /\ pc = "L205"
    /\ nvic_exti9_5' = FALSE
    /\ pc' = "L206"
    /\ UNCHANGED <<shared, timers, uwTick, primask, nvic_exti4, locals,
                   history>>
    /\ UNCHANGED aux

\* main.c:206
L206 ==
    /\ pc = "L206"
    /\ write_index' = 0
    /\ pc' = "L207"
    /\ UNCHANGED <<read_index, event_buffer, hw, locals, history>>
    /\ UNCHANGED aux

\* main.c:207
L207 ==
    /\ pc = "L207"
    /\ read_index' = 0
    /\ stopped' = TRUE
    /\ pc' = "L167"
    /\ EndOfIteration
    /\ UNCHANGED <<write_index, event_buffer, hw, to_send, i, event,
                   usb_packet, last_usb_send_time, accepted, sent, tx_log,
                   cb_log>>
    /\ UNCHANGED aux

\* the answers of CDC_Transmit_FS (the transport's contract: ok or busy)
SendResults == {"USBD_OK", "USBD_BUSY"}

Callback == \E e \in Edges, p \in TickPoints :
                HAL_GPIO_EXTI_Callback(e[1], e[2], p) /\ UNCHANGED served

Transmit == \E result \in SendResults : L194(result)

Next ==
    \/ Callback
    \/ L167
    \/ L169
    \/ L170
    \/ L171
    \/ L174
    \/ L185
    \/ L186
    \/ L187
    \/ Transmit
    \/ L195
    \/ L200
    \/ L202
    \/ L203
    \/ L204
    \/ L205
    \/ L206
    \/ L207

Spec == Init /\ [][Next]_vars


\* ---------------------------------------------------------- observers
RECURSIVE Concat(_)
\* the concatenation of a sequence of sequences
Concat(ss) == IF ss = <<>> THEN <<>> ELSE Head(ss) \o Concat(Tail(ss))

\* the event words of the packets the transport accepted, as the host
\* decodes them
SentWords == Concat([k \in 1 .. Len(sent) |-> WordsOf(sent[k])])

\* the event words of the packet being built or offered to the transport
InFlight ==
    IF pc \in {"L185", "L186", "L187", "L194"}
    THEN WordsOf(SubSeq(usb_packet, 1, 4 * i))
    ELSE <<>>

\* the accepted event words, in push order
AcceptedWords == [k \in 1 .. Len(accepted) |-> accepted[k].word]

IsPrefix(a, b) == Len(a) <= Len(b) /\ a = SubSeq(b, 1, Len(a))

\* ------------------------------------------------------------------ C1
\* C1: the event words placed into packets (transmitted, or in the packet
\* being built) are, in packet order, the first accepted event words in
\* push order: nothing is reordered and nothing is duplicated.
C1_Fifo == IsPrefix(SentWords \o InFlight, AcceptedWords)

\* pushes interleaved with drains: everything accepted, boot events and an
\* event pushed in the loop, has been transmitted in at least two packets
C1_Witness ==
    /\ Len(sent) >= 2
    /\ \E k \in 1 .. Len(cb_log) : cb_log[k] = "pushed"
    /\ Len(accepted) > Len(cb_log)
    /\ SentWords = AcceptedWords

\* ------------------------------------------------------------------ C2
\* C2 (as claimed): in every reachable state, each write of a cursor being
\* a step, 0 <= write_index - read_index <= MAX_EVENTS on uint32_t.
C2_OccupancyBound == ULe(Occupancy, MAX_EVENTS)

\* C2 (amended): the bound holds in every reachable state but the one
\* inside the stop transition where write_index is reset (main.c:206) and
\* read_index is not yet (main.c:207).
C2_OccupancyBoundOutsideReset ==
    \/ ULe(Occupancy, MAX_EVENTS)
    \/ pc = "L207" /\ write_index = 0 /\ ~nvic_exti4 /\ ~nvic_exti9_5

\* the buffer is full and a callback has found it full
C2_Witness ==
    /\ Occupancy = MAX_EVENTS
    /\ \E k \in 1 .. Len(cb_log) : cb_log[k] = "dropped"
    /\ read_index > 0

\* ------------------------------------------------------------------ C3
\* C3: every accepted event ends up in exactly one transmitted packet.
\* Packets are filled from the buffer only, so once the loop is back at its
\* top with an empty buffer every accepted event must have been sent.
C3_NoSilentLoss ==
    (pc = "L167" /\ write_index = read_index) => SentWords = AcceptedWords

\* ------------------------------------------------------------------ C4
\* C4: every event word handed to the transport was captured at a tick
\* below 2^29, so its timestamp field is the tick of its capture.
C4_NoAliasing ==
    \A k \in 1 .. Len(SentWords) :
        k <= Len(accepted) =>
            /\ ULt(accepted[k].tick, TS_LIMIT)
            /\ SentWords[k] % TS_LIMIT = accepted[k].tick

\* ------------------------------------------------------------------ C5
\* C5: the edge callback never advances write_index at a tick >= 2^29.
C5_NoLateCapture ==
    [][Len(accepted') > Len(accepted) =>
           ULt(accepted'[Len(accepted')].tick, TS_LIMIT)]_vars

\* ------------------------------------------------------------------ C6
\* C6: once the stop block has completed, both cursors are 0 and stay 0,
\* both EXTI lines are disabled and stay disabled, no callback is served
\* and CDC_Transmit_FS is not called again.
C6_StopIsTerminal ==
    /\ [](stopped => /\ write_index = 0
                     /\ read_index = 0
                     /\ ~nvic_exti4
                     /\ ~nvic_exti9_5)
    /\ [][stopped => /\ stopped'
                     /\ cb_log' = cb_log
                     /\ accepted' = accepted
                     /\ tx_log' = tx_log
                     /\ sent' = sent]_vars

\* after the stop the loop is at its trigger test again, interrupts are
\* globally enabled, and more callbacks could be served if a line were open
C6_Witness ==
    /\ stopped
    /\ pc = "L174"
    /\ ~primask
    /\ Len(cb_log) < MaxEdges
    /\ Len(accepted) > Len(SentWords)

\* ------------------------------------------------------------------ C7
\* C7: a callback for a channel pin that finds write_index - read_index =
\* MAX_EVENTS changes neither cursor nor any slot, and a callback for a
\* channel pin is dropped only then.
C7_OverflowDropsNewest ==
    [][Len(cb_log') > Len(cb_log) =>
           /\ (Occupancy = MAX_EVENTS => UNCHANGED shared)
           /\ (cb_log'[Len(cb_log')] = "dropped" <=> 
                  (Occupancy = MAX_EVENTS /\ UNCHANGED shared
                     /\ cb_log'[Len(cb_log')] # "unmapped"))
           /\ (cb_log'[Len(cb_log')] = "pushed" =>
                  /\ ULt(Occupancy, MAX_EVENTS)
                  /\ write_index' = Add32(write_index, 1))]_vars

\* an event was dropped, the consumer advanced read_index, and a later
\* push succeeded
C7_Witness ==
    \E a, b \in 1 .. Len(cb_log) :
        a < b /\ cb_log[a] = "dropped" /\ cb_log[b] = "pushed"

\* ------------------------------------------------------------------ C8
\* C8: the calls of CDC_Transmit_FS for one packet all pass the same bytes
\* and length, with read_index and last_usb_send_time as they were at the
\* first call; all but the last answered busy, the retry loop is left only
\* on success, and last_usb_send_time is not updated before.
C8_BusyRetry ==
    /\ pc \notin {"L194", "L195"} => tx_log = <<>>
    /\ pc = "L195" => Len(tx_log) > 0 /\ tx_log[Len(tx_log)].res = "USBD_OK"
    /\ \A k \in 1 .. Len(tx_log) :
          /\ tx_log[k].pkt = usb_packet
          /\ tx_log[k].len = 4 * to_send
          /\ tx_log[k].len = Len(usb_packet)
          /\ tx_log[k].r = read_index
          /\ tx_log[k].last = last_usb_send_time
          /\ tx_log[k].last = iter.last0
          /\ k < Len(tx_log) => tx_log[k].res = "USBD_BUSY"
          /\ (k = Len(tx_log) /\ pc = "L194") => tx_log[k].res = "USBD_BUSY"

\* busy MaxBusy times, then success: MaxBusy + 1 calls
C8_Witness ==
    /\ pc = "L195"
    /\ Len(tx_log) = MaxBusy + 1
    /\ MaxBusy > 0
    /\ last_usb_send_time # now

\* ------------------------------------------------------------------ C9
\* C9: an iteration calls CDC_Transmit_FS if and only if the sampled
\* occupancy is not 0 and it is at least EVENT_CHUNK_SIZE or the interval
\* has elapsed; with a sampled occupancy of 0 nothing is sent and
\* read_index and last_usb_send_time are unchanged.
C9_TriggerRule ==
    pc = "L200" =>
        /\ iter.sends \in {0, 1}
        /\ iter.sends = 1 <=>
              /\ diff # 0
              /\ \/ ULe(EVENT_CHUNK_SIZE, diff)
                 \/ ULe(USB_SEND_INTERVAL_MS, Sub32(now, iter.last0))
        /\ iter.sends = 0 =>
              /\ read_index = iter.r0
              /\ last_usb_send_time = iter.last0

\* the interval has elapsed and the sampled occupancy is 0: nothing is sent
C9_Witness ==
    /\ pc = "L200"
    /\ ~stopped
    /\ diff = 0
    /\ ULe(USB_SEND_INTERVAL_MS, Sub32(now, iter.last0))
    /\ iter.sends = 0
    /\ Len(sent) > 0

\* ----------------------------------------------------------------- C10
\* 2 * EVENT_CHUNK_SIZE + 1 events are pending at the first iteration and
\* no event is pushed afterwards (the claim's 40 = 2 * 16 + 8)
C10_Scenario ==
    /\ Len(accepted) = 2 * EVENT_CHUNK_SIZE + 1
    /\ \A k \in 1 .. Len(cb_log) : cb_log[k] # "pushed"

\* C10: a fire drains min(EVENT_CHUNK_SIZE, sampled occupancy) events and
\* advances read_index by as many; in the scenario the first iteration
\* sends events 0 .. CHUNK-1, the next one fires on the threshold and sends
\* events CHUNK .. 2*CHUNK-1, and the rest is sent only in an iteration
\* where now - last_usb_send_time >= USB_SEND_INTERVAL_MS.
C10_Chunking ==
    /\ (pc \in {"L194", "L195"}) =>
          /\ read_index = Add32(iter.r0, IF ULt(diff, EVENT_CHUNK_SIZE)
                                         THEN diff ELSE EVENT_CHUNK_SIZE)
          /\ Len(usb_packet) =
                 4 * (IF ULt(diff, EVENT_CHUNK_SIZE) THEN diff ELSE EVENT_CHUNK_SIZE)
    /\ pc = "L194" =>
          WordsOf(usb_packet) =
              SubSeq(AcceptedWords, Len(SentWords) + 1,
                     Len(SentWords) + Len(usb_packet) \div 4)
    /\ C10_Scenario =>
          /\ Len(sent) >= 1 =>
                WordsOf(sent[1]) = SubSeq(AcceptedWords, 1, EVENT_CHUNK_SIZE)
          /\ Len(sent) >= 2 =>
                WordsOf(sent[2]) =
                    SubSeq(AcceptedWords, EVENT_CHUNK_SIZE + 1, 2 * EVENT_CHUNK_SIZE)
          /\ (pc = "L200" /\ ~stopped /\ iter.r0 \in {0, EVENT_CHUNK_SIZE}) =>
                /\ iter.sends = 1
                /\ read_index = iter.r0 + EVENT_CHUNK_SIZE
          /\ (pc = "L195" /\ Len(sent) = 3) =>
                /\ ULe(USB_SEND_INTERVAL_MS, Sub32(now, last_usb_send_time))
                /\ WordsOf(sent[3]) =
                       SubSeq(AcceptedWords, 2 * EVENT_CHUNK_SIZE + 1,
                              2 * EVENT_CHUNK_SIZE + 1)

\* the scenario has run to its end: two full packets and the rest
C10_Witness ==
    /\ C10_Scenario
    /\ Len(sent) = 3
    /\ pc = "L195"

\* ----------------------------------------------------------------- C11
\* the event words drained for a packet of n words when read_index is r
Drained(r, n) == SubSeq(AcceptedWords, r - n + 1, r)

\* a packet of 1 .. EVENT_CHUNK_SIZE groups of four bytes
WellFormed(pkt) ==
    /\ Len(pkt) % 4 = 0
    /\ Len(pkt) >= 4
    /\ Len(pkt) <= 4 * EVENT_CHUNK_SIZE
    /\ \A k \in 1 .. Len(pkt) : pkt[k] \in 0 .. 255

\* C11: every packet passed to CDC_Transmit_FS has a length that is a
\* multiple of 4 between 4 and 4 * EVENT_CHUNK_SIZE (64 in the code), the
\* length argument is that length, every byte is a stored byte, and the
\* little-endian decode of its groups of four bytes is the sequence of the
\* event words drained for it, in arrival order.
C11_WireFormat ==
    /\ \A k \in 1 .. Len(tx_log) :
          /\ WellFormed(tx_log[k].pkt)
          /\ tx_log[k].len = Len(tx_log[k].pkt)
          /\ WordsOf(tx_log[k].pkt) = Drained(tx_log[k].r, tx_log[k].len \div 4)
    /\ pc = "L194" =>
          /\ WellFormed(usb_packet)
          /\ WordsOf(usb_packet) = Drained(read_index, to_send)
    /\ \A k \in 1 .. Len(sent) : WellFormed(sent[k])

\* a full packet was accepted by the transport; one of its words has bit 31
\* set and a timestamp that is not 0, so its four bytes differ
C11_Witness ==
    /\ pc = "L195"
    /\ Len(usb_packet) = 4 * EVENT_CHUNK_SIZE
    /\ \E k \in 1 .. to_send :
          /\ WordsOf(usb_packet)[k] < 0
          /\ WordsOf(usb_packet)[k] % TS_LIMIT # 0
          /\ usb_packet[4 * k - 3] # usb_packet[4 * k]

\* ------------------------------------------------ the callback on its own
\* The callback as a function of its argument, of the level it reads and
\* of the tick it reads: every pin identity, both levels, ticks on both
\* sides of every field boundary of the event word.
MappedPins == {GPIO_PIN_4, GPIO_PIN_5, GPIO_PIN_6, GPIO_PIN_7}

\* pin identities that are no channel: none, GPIO_PIN_3, two channel pins
\* at once, GPIO_PIN_8, GPIO_PIN_15
UnmappedPins == {0, 8, GPIO_PIN_4 + GPIO_PIN_5, GPIO_PIN_8, 32768}

Levels == {GPIO_PIN_SET, GPIO_PIN_RESET}

\* <<TIM3_CNT, TIM2_CNT>> at the ticks 0, 1, 2^16, 2^29 - 1, 2^29, 2^32 - 1
CaptureTicks ==
    {<<0, 0>>, <<0, 1>>, <<1, 0>>, <<(TS_LIMIT \div 65536) - 1, 65535>>,
     <<TS_LIMIT \div 65536, 0>>, <<65535, 65535>>}

Capture ==
    \E GPIO_Pin \in MappedPins \cup UnmappedPins, level \in Levels,
       p \in CaptureTicks :
        /\ HAL_GPIO_EXTI_Callback(GPIO_Pin, level, p)
        /\ served' = Append(served, [pin |-> GPIO_Pin, level |-> level])

CaptureNext == Capture

SpecCapture == Init /\ [][CaptureNext]_vars

\* ----------------------------------------------------------------- C12
\* the direction, channel and timestamp an accepted event was built from
Triple(a) == <<a.edge, a.channel, a.tick>>

\* C12: an event word built from a channel in 0 .. 3, a direction and a
\* tick below 2^29 decodes (bit 31, bits 30-29, bits 28-0) to the same
\* direction, channel and tick, and two such events with different
\* triples have different words.
C12_RoundTrip ==
    /\ \A k \in 1 .. Len(accepted) :
          ULt(accepted[k].tick, TS_LIMIT) =>
              /\ accepted[k].channel \in 0 .. 3
              /\ accepted[k].edge \in 0 .. 1
              /\ DecodeEdge(accepted[k].word) = accepted[k].edge
              /\ DecodeChannel(accepted[k].word) = accepted[k].channel
              /\ DecodeTime(accepted[k].word) = accepted[k].tick
    /\ \A j, k \in 1 .. Len(accepted) :
          (/\ ULt(accepted[j].tick, TS_LIMIT)
           /\ ULt(accepted[k].tick, TS_LIMIT)
           /\ Triple(accepted[j]) # Triple(accepted[k])) =>
              accepted[j].word # accepted[k].word

\* a falling edge on channel 2 at tick 2^16 and a rising edge on channel 3
\* at tick 2^29 - 1 were served by the callback and accepted
C12_Witness ==
    /\ Len(served) >= 2
    /\ \E j, k \in 1 .. Len(accepted) :
          /\ Triple(accepted[j]) = <<0, 2, 65536>>
          /\ Triple(accepted[k]) = <<1, 3, TS_LIMIT - 1>>

\* ----------------------------------------------------------------- C14
\* C14: a call of the callback with a pin identity other than GPIO_PIN_4,
\* 5, 6, 7 changes neither cursor nor any slot; a call with GPIO_PIN_4, 5,
\* 6 or 7 is never taken as unmapped, and the event it stores carries the
\* channel 0, 1, 2 or 3 respectively.
C14_UnmappedNoOp ==
    [][Len(served') > Len(served) =>
          LET call == served'[Len(served')]
              outcome == cb_log'[Len(cb_log')]
              stored == event_buffer'[Slot(write_index)]
              OfPin(pin, channel) ==
                  call.pin = pin =>
                      /\ outcome \in {"pushed", "dropped"}
                      /\ outcome = "pushed" =>
                            /\ write_index' = Add32(write_index, 1)
                            /\ DecodeChannel(stored) = channel
          IN  /\ Len(cb_log') = Len(cb_log) + 1
              /\ call.pin \notin {GPIO_PIN_4, GPIO_PIN_5, GPIO_PIN_6, GPIO_PIN_7} =>
                    /\ outcome = "unmapped"
                    /\ UNCHANGED shared
              /\ OfPin(GPIO_PIN_4, 0)
              /\ OfPin(GPIO_PIN_5, 1)
              /\ OfPin(GPIO_PIN_6, 2)
              /\ OfPin(GPIO_PIN_7, 3)]_vars

\* a call with two channel pins at once was a no-op and a later call with
\* GPIO_PIN_6 pushed an event
C14_Witness ==
    \E j, k \in 1 .. Len(served) :
        /\ j < k
        /\ served[j].pin = GPIO_PIN_4 + GPIO_PIN_5
        /\ cb_log[j] = "unmapped"
        /\ served[k].pin = GPIO_PIN_6
        /\ cb_log[k] = "pushed"

\* -------------------------------------------- get_32bit_timer on its own
\* One call of get_32bit_timer, register read by register read, with TIM2
\* (and TIM3, which counts TIM2's wraparounds) counting between the reads.

\* the numbers of ticks TIM2 counts between two register reads
TickSteps == {0, 1, 2, 65535}

\* <<TIM3_CNT, TIM2_CNT>> when the call starts: before a wraparound of
\* TIM2 at tick 0, below 2^29 and below 2^32
TimerStarts ==
    {<<0, 0>>, <<0, 65534>>, <<(TS_LIMIT \div 65536) - 1, 65534>>,
     <<65535, 65534>>}

\* the 32-bit tick the counters hold
Tick32 == Compose(TIM3_CNT, TIM2_CNT)

\* everything but the counters and the call
main_state == <<shared, tim2_on, tim3_on, uwTick, primask, nvic_exti4,
                nvic_exti9_5, pc, locals, history, served, isr>>

TimerInit ==
    /\ \E p \in TimerStarts : TIM3_CNT = p[1] /\ TIM2_CNT = p[2]
    /\ write_index = 0
    /\ read_index = 0
    /\ event_buffer = [s \in 0 .. EVENT_MASK |-> 0]
    /\ tim2_on = TRUE
    /\ tim3_on = TRUE
    /\ uwTick = 0
    /\ primask = FALSE
    /\ nvic_exti4 = TRUE
    /\ nvic_exti9_5 = TRUE
    /\ pc = "L200"
    /\ now = 0
    /\ diff = 0
    /\ to_send = 0
    /\ i = 0
    /\ event = 0
    /\ usb_packet = <<>>
    /\ last_usb_send_time = 0
    /\ accepted = <<>>
    /\ sent = <<>>
    /\ tx_log = <<>>
    /\ cb_log = <<>>
    /\ iter = [r0 |-> 0, last0 |-> 0, sends |-> 0]
    /\ stopped = FALSE
    /\ served = <<>>
    /\ isr_pc = "idle"
    /\ isr_data = 0
    /\ isr_next_write = 0
    /\ tm_pc = "L76"
    /\ tm_high1 = 0
    /\ tm_low = 0
    /\ tm_high2 = 0
    /\ tm_ret = 0
    /\ tm_first = 0
    /\ tm_last = 0
    /\ tm_wraps = 0

\* TIM2 counts d ticks and TIM3 counts its wraparound; the counters are
\* read by the call only, so their steps are taken with the next read
Counts(d) ==
    /\ TIM2_CNT' = (TIM2_CNT + d) % 65536
    /\ TIM3_CNT' = (TIM3_CNT + (TIM2_CNT + d) \div 65536) % 65536

\* the wraparounds of TIM2 in d ticks
Wraps(d) == (TIM2_CNT + d) \div 65536

\* main.c:76: high1 = TIM3->CNT
T76(d) ==
    /\ tm_pc = "L76"
    /\ Counts(d)
    /\ tm_high1' = TIM3_CNT'
    /\ tm_first' = Compose(TIM3_CNT', TIM2_CNT')
    /\ tm_last' = Compose(TIM3_CNT', TIM2_CNT')
    /\ tm_wraps' = 0
    /\ tm_pc' = "L77"
    /\ UNCHANGED <<main_state, tm_low, tm_high2, tm_ret>>

\* main.c:77: low = TIM2->CNT
T77(d) ==
    /\ tm_pc = "L77"
    /\ Counts(d)
    /\ tm_low' = TIM2_CNT'
    /\ tm_last' = Compose(TIM3_CNT', TIM2_CNT')
    /\ tm_wraps' = tm_wraps + Wraps(d)
    /\ tm_pc' = "L78"
    /\ UNCHANGED <<main_state, tm_high1, tm_high2, tm_ret, tm_first>>

\* main.c:78-80: high2 = TIM3->CNT; if (high1 != high2)
T78(d) ==
    /\ tm_pc = "L78"
    /\ Counts(d)
    /\ tm_high2' = TIM3_CNT'
    /\ tm_last' = Compose(TIM3_CNT', TIM2_CNT')
    /\ tm_wraps' = tm_wraps + Wraps(d)
    /\ tm_pc' = IF tm_high1 # TIM3_CNT' THEN "L82" ELSE "L86"
    /\ UNCHANGED <<main_state, tm_high1, tm_low, tm_ret, tm_first>>

\* (mutant) high1 is replaced and low is not read again
T82_KeepsLow(d) ==
    /\ tm_pc = "L82"
    /\ Counts(d)
    /\ tm_high1' = tm_high2
    /\ tm_last' = Compose(TIM3_CNT', TIM2_CNT')
    /\ tm_wraps' = tm_wraps + Wraps(d)
    /\ tm_pc' = "L86"
    /\ UNCHANGED <<main_state, tm_low, tm_high2, tm_ret, tm_first>>

\* main.c:82-83: low = TIM2->CNT; high1 = high2
T82(d) ==
    /\ tm_pc = "L82"
    /\ Counts(d)
    /\ tm_low' = TIM2_CNT'
    /\ tm_high1' = tm_high2
    /\ tm_last' = Compose(TIM3_CNT', TIM2_CNT')
    /\ tm_wraps' = tm_wraps + Wraps(d)
    /\ tm_pc' = "L86"
    /\ UNCHANGED <<main_state, tm_high2, tm_ret, tm_first>>

\* main.c:86: return ((uint32_t)high1 << 16) | low
T86 ==
    /\ tm_pc = "L86"
    /\ tm_ret' = Compose(tm_high1, tm_low)
    /\ tm_pc' = "done"
    /\ UNCHANGED <<main_state, TIM2_CNT, TIM3_CNT, tm_high1, tm_low, tm_high2,
                   tm_first, tm_last, tm_wraps>>

ReadHigh1 == \E d \in TickSteps : T76(d)
ReadLow == \E d \in TickSteps : T77(d)
ReadHigh2 == \E d \in TickSteps : T78(d)
ReadLowAgain == \E d \in TickSteps : T82(d)

TimerNext ==
    \/ ReadHigh1
    \/ ReadLow
    \/ ReadHigh2
    \/ ReadLowAgain
    \/ T86

SpecTimer == TimerInit /\ [][TimerNext]_vars

\* ----------------------------------------------------------------- C13
\* C13: when TIM2 wraps around at most once between the first and the last
\* register read of a call of get_32bit_timer, the value returned is a
\* tick the counters held between those two reads (the 32-bit tick only
\* counts up, so: not before the tick at the first read and not after the
\* tick at the last read, on uint32_t).  A torn pair is outside that range
\* by a full turn of TIM2.
C13_TickComposition ==
    (tm_pc = "done" /\ tm_wraps <= 1) =>
        ULe(Sub32(tm_ret, tm_first), Sub32(tm_last, tm_first))

\* TIM2 wrapped around once, between the two reads of TIM3: the call read
\* the low word again and returned
C13_Witness ==
    /\ tm_pc = "done"
    /\ tm_wraps = 1
    /\ (tm_first \div 65536) % 65536 # tm_high2
    /\ tm_high1 = tm_high2
    /\ tm_ret # tm_first

\* -------------------------------------------------- the stop transition
\* the steps of the main loop
MainLoop ==
    \/ L167
    \/ L169
    \/ L170
    \/ L171
    \/ L174
    \/ L185
    \/ L186
    \/ L187
    \/ Transmit
    \/ L195
    \/ L200
    \/ L202
    \/ L203
    \/ L204
    \/ L205
    \/ L206
    \/ L207

\* the statements of the stop block (main.c:202-207)
StopBlock == {"L202", "L203", "L204", "L205", "L206", "L207"}

\* an edge that arrives once the tick check (main.c:200) has found the
\* timer expired, or later
LateCallback == (pc \in StopBlock \/ stopped) /\ Callback

\* the behaviours of Spec in which no edge arrives before the tick check
\* has found the timer expired
StopNext ==
    \/ LateCallback
    \/ MainLoop

SpecStop == Init /\ [][StopNext]_vars

\* ----------------------------------------------------------------- C15
\* C15: both EXTI lines are disabled before either cursor is reset; no
\* callback is served between the two resets or after them; and when the
\* stop block completes both cursors are 0 and stay 0, whatever the
\* callbacks served between the tick check and the disabling have pushed.
C15_StopOrdering ==
    /\ [](pc \in {"L206", "L207"} => ~nvic_exti4 /\ ~nvic_exti9_5)
    /\ [][(pc \in {"L206", "L207"} \/ stopped) =>
              /\ cb_log' = cb_log
              /\ accepted' = accepted]_vars
    /\ [][(pc = "L207" /\ pc' # "L207") =>
              /\ write_index' = 0
              /\ read_index' = 0
              /\ stopped']_vars
    /\ [](stopped => write_index = 0 /\ read_index = 0)

\* an edge served between the tick check and the disabling pushed an
\* event; the stop block has completed, both cursors are 0, interrupts are
\* not masked and more callbacks could be served if a line were open
C15_Witness ==
    /\ stopped
    /\ \E k \in 1 .. Len(cb_log) : cb_log[k] = "pushed"
    /\ Len(cb_log) < MaxEdges
    /\ ~primask
    /\ write_index = 0
    /\ read_index = 0
    /\ pc = "L174"

\* ----------------------------------------------------------------- C16
\* the logical indices of the events pushed and not yet read by the
\* consumer: at main.c:186 the event at read_index has been read already
Unread ==
    {Add32(read_index, k) :
        k \in (IF pc = "L186" THEN 1 ELSE 0) .. Sub32(write_index, read_index) - 1}

\* C16: with callbacks served between any two statements of the main
\* loop, the pushed events the consumer has not read yet are in slots of
\* their own (so no push has stored into the slot of another one), each
\* of them is still the word that was pushed, and the word the consumer
\* reads (main.c:185) is the one pushed for that logical index.
C16_SlotExclusivity ==
    [](LET unread == Unread
           slot == [j \in unread |-> Slot(j)]
       IN  /\ Cardinality({slot[j] : j \in unread}) = Cardinality(unread)
           /\ \A j \in unread :
                 /\ j < Len(accepted)
                 /\ event_buffer[slot[j]] = accepted[j + 1].word
           /\ pc = "L186" =>
                 /\ read_index < Len(accepted)
                 /\ event = accepted[read_index + 1].word)

\* the consumer is inside the drain loop, has read an event, and the
\* buffer is full again because a callback has pushed into a slot the
\* consumer had read before
C16_Witness ==
    /\ pc = "L186"
    /\ i > 0
    /\ ULt(MAX_EVENTS, write_index)
    /\ Occupancy = MAX_EVENTS
    /\ cb_log # <<>>
    /\ cb_log[Len(cb_log)] = "pushed"
    /\ event = accepted[read_index + 1].word

\* ------------------------------------ the callback statement by statement
\* The callback with its store (main.c:115) and its publication
\* (main.c:116) as two steps.  The main loop cannot run while a callback
\* is active, and the two EXTI lines cannot preempt each other.

\* the edges served: a rising edge on a channel pin Edges leaves out
IsrEdges == {<<GPIO_PIN_5, GPIO_PIN_SET>>}

\* main.c:101-113: the event word and the test for room.  The event is
\* entered in accepted here, ahead of its publication.
Isr101(GPIO_Pin, pin_state, p) ==
    /\ ~primask
    /\ LineEnabled(GPIO_Pin)
    /\ isr_pc = "idle"
    /\ Len(cb_log) < MaxEdges
    /\ IF Channel(GPIO_Pin) = NoChannel
       THEN UNCHANGED <<TIM3_CNT, TIM2_CNT>>
       ELSE Counted(p)
    /\ LET channel == Channel(GPIO_Pin)
           time == Timer32(p[1], p[2])
           data == EventWord(pin_state, channel, time)
           next_write == Add32(write_index, 1)
       IN  IF channel = NoChannel
           THEN /\ cb_log' = Append(cb_log, "unmapped")
                /\ UNCHANGED <<accepted, isr>>
           ELSE IF HasRoom(next_write)
           THEN /\ isr_pc' = "L115"
                /\ isr_data' = data
                /\ isr_next_write' = next_write
                /\ accepted' = Append(accepted, [word |-> data, tick |-> time,
                                                 edge |-> IF pin_state = GPIO_PIN_SET THEN 1 ELSE 0,
                                                 channel |-> channel])
                /\ UNCHANGED cb_log
           ELSE /\ cb_log' = Append(cb_log, "dropped")
                /\ UNCHANGED <<accepted, isr>>
    /\ UNCHANGED <<shared, tim2_on, tim3_on, uwTick, primask, nvic_exti4,
                   nvic_exti9_5, pc, locals, sent, tx_log, iter, stopped,
                   served, timer_call>>

\* (mutant) write_index is advanced first
Isr115_PublishesFirst ==
    /\ isr_pc = "L115"
    /\ write_index' = isr_next_write
    /\ isr_pc' = "L116"
    /\ UNCHANGED <<read_index, event_buffer, hw, pc, locals, history, served,
                   isr_data, isr_next_write, timer_call>>

\* main.c:115: event_buffer[write_index & EVENT_MASK] = data
Isr115 ==
    /\ isr_pc = "L115"
    /\ event_buffer' = [event_buffer EXCEPT ![Slot(write_index)] = isr_data]
    /\ isr_pc' = "L116"
    /\ UNCHANGED <<write_index, read_index, hw, pc, locals, history, served,
                   isr_data, isr_next_write, timer_call>>

\* main.c:116: write_index = next_write
Isr116 ==
    /\ isr_pc = "L116"
    /\ write_index' = isr_next_write
    /\ cb_log' = Append(cb_log, "pushed")
    /\ isr_pc' = "idle"
    /\ UNCHANGED <<read_index, event_buffer, hw, pc, locals, accepted, sent,
                   tx_log, iter, stopped, served, isr_data, isr_next_write,
                   timer_call>>

IsrEntry == \E e \in IsrEdges, p \in TickPoints : Isr101(e[1], e[2], p)

\* the main loop runs while no callback is active
Thread == isr_pc = "idle" /\ MainLoop

IsrNext ==
    \/ IsrEntry
    \/ Isr115
    \/ Isr116
    \/ Thread

SpecIsr == Init /\ [][IsrNext]_vars

\* ----------------------------------------------------------------- C17
\* the events of the sampled occupancy that the drain loop has yet to read
Remaining ==
    IF pc \in {"L171", "L174"} THEN diff
    ELSE IF pc = "L185" THEN Sub32(to_send, i)
    ELSE IF pc \in {"L186", "L187"} THEN Sub32(to_send, i + 1)
    ELSE 0

\* C17: the callback stores the event before it advances write_index, so
\* in every state, the one between the store and the publication
\* included, every slot at a logical index from read_index up to
\* write_index holds the event pushed for that index; the occupancy
\* sampled under the interrupt guard, less what the drain loop has read
\* since, never exceeds the published events; and the consumer reads a
\* slot only at a logical index below write_index.
C17_PublishedRange ==
    /\ \A j \in Unread : event_buffer[Slot(j)] = accepted[j + 1].word
    /\ isr_pc = "L116" =>
          /\ isr_next_write = Add32(write_index, 1)
          /\ event_buffer[Slot(write_index)] = isr_data
          /\ Len(accepted) = isr_next_write
    /\ isr_pc = "idle" /\ ~stopped /\ pc # "L207" => Len(accepted) = write_index
    /\ ULe(Remaining, Sub32(write_index,
                            IF pc = "L186" THEN Add32(read_index, 1) ELSE read_index))
        \/ pc = "L207"
    /\ pc \in {"L185", "L186"} => ULt(read_index, write_index)
    /\ pc = "L186" => event = accepted[read_index + 1].word

\* a callback has stored its event and not yet published it, while the
\* main loop is inside the drain loop with an event of its sample still
\* to read
C17_Witness ==
    /\ isr_pc = "L116"
    /\ pc = "L187"
    /\ ULt(i + 1, to_send)
    /\ event_buffer[Slot(write_index)] = isr_data
    /\ isr_data # 0
    /\ ULt(read_index, write_index)

\* ----------------------------------------------------------------- C18
\* a step of the callback (every callback served is logged); every other
\* step is a step of the main loop
CallbackStep == Len(cb_log') > Len(cb_log)

\* C18 (as claimed): write_index and event_buffer are changed by steps of
\* the callback only, read_index by steps of the main loop only.
C18_CursorOwnership ==
    [][/\ write_index' # write_index => CallbackStep
       /\ event_buffer' # event_buffer => CallbackStep
       /\ read_index' # read_index => ~CallbackStep]_vars

\* C18 (amended): as claimed, but for the stop block, where the main loop
\* resets write_index to 0 (main.c:206) with both EXTI lines disabled.
C18_CursorOwnershipOutsideStop ==
    [][/\ write_index' # write_index =>
             \/ CallbackStep
             \/ /\ pc = "L206"
                /\ write_index' = 0
                /\ ~nvic_exti4
                /\ ~nvic_exti9_5
       /\ event_buffer' # event_buffer => CallbackStep
       /\ read_index' # read_index => ~CallbackStep]_vars

\* the callback has pushed, the consumer has drained, and the main loop
\* has just reset a write_index that was not 0
C18_Witness ==
    /\ pc = "L207"
    /\ write_index = 0
    /\ ULt(0, read_index)
    /\ \E k \in 1 .. Len(cb_log) : cb_log[k] = "pushed"
    /\ Len(sent) > 0

\* ----------------------------------------------------------------- C19
\* the statements of the drain loop and of the busy-retry loop
DrainAndRetry == {"L185", "L186", "L187", "L194"}

\* C19: interrupts are masked exactly from __disable_irq (main.c:169) to
\* __enable_irq (main.c:171); the only statement run masked is the paired
\* read of the cursors (main.c:170), which changes diff only; and a
\* callback for a channel pin served during the drain loop or the
\* busy-retry loop pushes its event unless the buffer is full.
C19_SingleCriticalSection ==
    /\ [](primask <=> pc \in {"L170", "L171"})
    /\ [][primask =>
              \/ /\ pc = "L170"
                 /\ diff' = Sub32(write_index, read_index)
                 /\ primask'
                 /\ UNCHANGED <<shared, nvic_exti4, nvic_exti9_5, sent, tx_log>>
              \/ /\ pc = "L171"
                 /\ ~primask'
                 /\ UNCHANGED <<shared, diff, nvic_exti4, nvic_exti9_5, sent,
                                tx_log>>]_vars
    /\ [][(CallbackStep /\ pc \in DrainAndRetry
               /\ cb_log'[Len(cb_log')] # "unmapped") =>
              /\ ~primask
              /\ ULt(Occupancy, MAX_EVENTS) <=> cb_log'[Len(cb_log')] = "pushed"
              /\ Occupancy = MAX_EVENTS <=> cb_log'[Len(cb_log')] = "dropped"]_vars

\* the main loop spins on a busy transport, and the callbacks served
\* since the occupancy was sampled have filled the buffer again
C19_Witness ==
    /\ pc = "L194"
    /\ tx_log # <<>>
    /\ ~primask
    /\ ULt(0, to_send)
    /\ write_index = Add32(Add32(iter.r0, diff), to_send)
    /\ Occupancy = MAX_EVENTS

====
